---- MODULE Spec2Model ----
(***************************************************************************)
(* Model of DjangoXBlockUserStateClient                                    *)
(* (lms/djangoapps/courseware/user_state_client.py): a per-user store of   *)
(* XBlock field maps kept as JSON text in StudentModule rows.              *)
(***************************************************************************)
EXTENDS Integers, Sequences, FiniteSets, TLC

\* ------------------------------------------------------------------------
\* Bounds of the model
\* ------------------------------------------------------------------------
MaxClock == 1
\* the number of assignments to tab['is_hidden'] followed on one tab
MaxAssign == 2

\* ------------------------------------------------------------------------
\* Domains
\* ------------------------------------------------------------------------
Owner == "u"
Users == {"u", "v"}

UserState == "user_state"
Scopes == {"user_state", "content"}

CourseOrder == <<"c1", "c2">>

K1 == [course_key |-> "c1", block_id |-> "b1"]
K2 == [course_key |-> "c1", block_id |-> "b2"]
K3 == [course_key |-> "c2", block_id |-> "b3"]
Keys == {K1, K2, K3}
KeyOrder == <<K1, K2, K3>>

Fields == {"a", "b"}
FieldOrder == <<"a", "b">>

\* a Python dict of field name -> value
EmptyDict == [f \in {} |-> 0]
Dict1(f, v) == [x \in {f} |-> v]
\* the field maps written by set, and those written by set_many
Dicts == {EmptyDict, Dict1("a", 1), Dict1("a", 2), Dict1("b", 1),
          [x \in Fields |-> IF x = "a" THEN 2 ELSE 1]}
BatchDicts == {Dict1("a", 2), Dict1("b", 1)}

\* the fields argument: None, or a list of field names
NoFields == [isNone |-> TRUE, names |-> <<>>]
FieldList(s) == [isNone |-> FALSE, names |-> s]
FieldArgs == {NoFields, FieldList(<<>>), FieldList(<<"a">>), FieldList(<<"a", "c">>)}

\* the lists of distinct keys of a set of keys, in every order
RECURSIVE KeySeqs(_)
KeySeqs(S) ==
    {<<>>} \cup UNION {{<<x>> \o t : t \in KeySeqs(S \ {x})} : x \in S}

\* the block_keys_to_state arguments of set_many over a set of keys
Batches(S) == UNION {[D -> BatchDicts] : D \in SUBSET S}

Range(s) == {s[i] : i \in DOMAIN s}

\* ------------------------------------------------------------------------
\* JSON text of a field map: the sequence of its (name, value) pairs
\* ------------------------------------------------------------------------
RECURSIVE dumpsFrom(_, _)
dumpsFrom(d, i) ==
    IF i > Len(FieldOrder) THEN <<>>
    ELSE (IF FieldOrder[i] \in DOMAIN d
             THEN <<(<<FieldOrder[i], d[FieldOrder[i]]>>)>>
             ELSE <<>>) \o dumpsFrom(d, i + 1)

dumps(d) == dumpsFrom(d, 1)

LastIndexOf(t, f) == CHOOSE i \in DOMAIN t :
                        /\ t[i][1] = f
                        /\ \A j \in DOMAIN t : t[j][1] = f => j <= i

loads(t) == [f \in {t[i][1] : i \in DOMAIN t} |-> t[LastIndexOf(t, f)][2]]

\* ------------------------------------------------------------------------
\* StudentModule rows
\* ------------------------------------------------------------------------
NoRow == [exists |-> FALSE, isNone |-> TRUE, text |-> <<>>, modified |-> 0]
Row(isNone, text, modified) ==
    [exists |-> TRUE, isNone |-> isNone, text |-> text, modified |-> modified]

VARIABLES
    store,    \* the StudentModule table: student -> usage key -> row
    clock,    \* the current time
    last,     \* the call the sequential client has made and not yet returned from
    threads,  \* the position of each concurrent writer inside set_many
    log,      \* the reads and writes of the concurrent writers, in order
    tab,      \* a WikiTab object, with the values assigned to it so far
    answer    \* the last call made on a course tab

vars == <<store, clock, last, threads, log, tab, answer>>

\* a StudentModule object loaded from (or about to be written to) the table
Module(student, k, row) ==
    [student |-> student, course_id |-> k.course_key, module_state_key |-> k,
     isNone |-> row.isNone, text |-> row.text, modified |-> row.modified]

\* get_or_create on a table without the unique key: the insert always succeeds
get_or_create_no_unique(st, student, usage_key, defaults_text, now) ==
    [module |-> Module(student, usage_key, Row(FALSE, defaults_text, now)),
     created |-> TRUE,
     store |-> [st EXCEPT ![student][usage_key] = Row(FALSE, defaults_text, now)]]

\* StudentModule.objects.get_or_create(student, course_id, module_state_key,
\* defaults={'state': ...}): the row if there is one, else a new row
get_or_create(st, student, usage_key, defaults_text, now) ==
    IF st[student][usage_key].exists
    THEN [module |-> Module(student, usage_key, st[student][usage_key]),
          created |-> FALSE, store |-> st]
    ELSE [module |-> Module(student, usage_key, Row(FALSE, defaults_text, now)),
          created |-> TRUE,
          store |-> [st EXCEPT ![student][usage_key] = Row(FALSE, defaults_text, now)]]

\* student_module.save(force_update=True): every column of the row is
\* rewritten from the object, and modified (auto_now) becomes the save time
save(st, m, now) ==
    [st EXCEPT ![m.student][m.module_state_key] = Row(m.isNone, m.text, now)]

\* StudentModule.objects.chunked_filter('module_state_key__in', usage_keys,
\* student__username=username, course_id=course_key)
chunked_filter(st, usage_keys, username, course_key) ==
    LET hit(k) == /\ k \in Range(usage_keys)
                  /\ k.course_key = course_key
                  /\ st[username][k].exists
        ks == SelectSeq(KeyOrder, hit)
    IN  [i \in DOMAIN ks |-> Module(username, ks[i], st[username][ks[i]])]

map_into_course(module_state_key, course_id) ==
    [module_state_key EXCEPT !.course_key = course_id]

\* ------------------------------------------------------------------------
\* _get_student_modules
\* ------------------------------------------------------------------------
course_key_func(k) == k.course_key

CourseRank(c) == CHOOSE i \in DOMAIN CourseOrder : CourseOrder[i] = c

\* sorted(block_keys, key=course_key_func): a stable sort
RECURSIVE InsertByCourse(_, _)
InsertByCourse(x, s) ==
    IF s = <<>> THEN <<x>>
    ELSE IF CourseRank(course_key_func(x)) < CourseRank(course_key_func(s[1]))
         THEN <<x>> \o s
         ELSE <<s[1]>> \o InsertByCourse(x, Tail(s))

RECURSIVE sortedFrom(_, _, _)
sortedFrom(block_keys, i, acc) ==
    IF i > Len(block_keys) THEN acc
    ELSE sortedFrom(block_keys, i + 1, InsertByCourse(block_keys[i], acc))

\* sorted, leaving the keys in the order they were given
sorted_as_given(block_keys) == block_keys

sorted(block_keys) == sortedFrom(block_keys, 1, <<>>)

\* itertools.groupby(..., course_key_func): the maximal runs of equal course
RECURSIVE RunLength(_, _, _)
RunLength(s, c, i) ==
    IF i <= Len(s) /\ course_key_func(s[i]) = c THEN RunLength(s, c, i + 1)
    ELSE i - 1

RECURSIVE groupby(_)
groupby(s) ==
    IF s = <<>> THEN <<>>
    ELSE LET c == course_key_func(s[1])
             n == RunLength(s, c, 1)
         IN  <<(<<c, SubSeq(s, 1, n)>>)>> \o groupby(SubSeq(s, n + 1, Len(s)))

\* GroupModules, the query not filtered on the student
GroupModules_any_student(st, username, group) ==
    LET query == chunked_filter(st, group[2], username, group[1])
                    \o chunked_filter(st, group[2],
                                      CHOOSE s \in Users : s # username, group[1])
    IN  [i \in DOMAIN query |->
            <<query[i], map_into_course(query[i].module_state_key, query[i].course_id)>>]

\* the (student_module, usage_key) pairs of one course group
GroupModules(st, username, group) ==
    LET query == chunked_filter(st, group[2], username, group[1])
    IN  [i \in DOMAIN query |->
            <<query[i], map_into_course(query[i].module_state_key, query[i].course_id)>>]

RECURSIVE ModulesFrom(_, _, _, _)
ModulesFrom(st, username, by_course, i) ==
    IF i > Len(by_course) THEN <<>>
    ELSE GroupModules(st, username, by_course[i])
            \o ModulesFrom(st, username, by_course, i + 1)

\* the pairs yielded, and the number of queries issued, when fully consumed
get_student_modules(st, username, block_keys) ==
    LET by_course == groupby(sorted(block_keys))
    IN  [modules |-> ModulesFrom(st, username, by_course, 1),
         queries |-> Len(by_course),
         lookups |-> by_course]

\* ------------------------------------------------------------------------
\* Outcome of one call of the client
\* ------------------------------------------------------------------------
Res(outcome, yielded, ret, st, queries, writes, created) ==
    [outcome |-> outcome, yielded |-> yielded, ret |-> ret, store |-> st,
     queries |-> queries, writes |-> writes, created |-> created]

Raise(error, st) == Res(error, <<>>, EmptyDict, st, 0, 0, {})

\* the dict read from a loaded module (get_many, set_many)
StateOf(m) == IF m.isNone THEN EmptyDict ELSE loads(m.text)

\* get_many, leaving out the records whose field map is empty
get_many_skip_empty(st, username, block_keys, scope, fields) ==
    IF Owner # username THEN Raise("AssertionError", st)
    ELSE IF scope # UserState THEN Raise("ValueError", st)
    ELSE LET found == get_student_modules(st, username, block_keys)
             modules == SelectSeq(found.modules,
                                  LAMBDA p : StateOf(p[1]) # EmptyDict)
         IN  Res("ok",
                 [i \in DOMAIN modules |-> <<modules[i][2], StateOf(modules[i][1])>>],
                 EmptyDict, st, found.queries, 0, {})

\* get_many, yielding only the fields named in the fields argument
get_many_filtered(st, username, block_keys, scope, fields) ==
    IF Owner # username THEN Raise("AssertionError", st)
    ELSE IF scope # UserState THEN Raise("ValueError", st)
    ELSE LET found == get_student_modules(st, username, block_keys)
             modules == found.modules
             named(d) == IF fields.isNone THEN d
                         ELSE [f \in DOMAIN d \cap Range(fields.names) |-> d[f]]
         IN  Res("ok",
                 [i \in DOMAIN modules |->
                     <<modules[i][2], named(StateOf(modules[i][1]))>>],
                 EmptyDict, st, found.queries, 0, {})

\* ------------------------------------------------------------------------
\* get_many, fully consumed
\* ------------------------------------------------------------------------
get_many(st, username, block_keys, scope, fields) ==
    IF Owner # username THEN Raise("AssertionError", st)
    ELSE IF scope # UserState THEN Raise("ValueError", st)
    ELSE LET found == get_student_modules(st, username, block_keys)
             modules == found.modules
         IN  Res("ok",
                 [i \in DOMAIN modules |-> <<modules[i][2], StateOf(modules[i][1])>>],
                 EmptyDict, st, found.queries, 0, {})

\* get, looking the record up with get_or_create
get_creating(st, username, block_key, scope, fields) ==
    IF Owner # username THEN Raise("AssertionError", st)
    ELSE IF scope # UserState THEN Raise("ValueError", st)
    ELSE LET goc == get_or_create(st, Owner, block_key, <<>>, 0)
         IN  IF goc.created
             THEN [Raise("DoesNotExist", goc.store) EXCEPT !.queries = 1]
             ELSE Res("ok", <<>>, StateOf(goc.module), st, 1, 0, {})

\* get, taking an empty field map for a missing record
get_empty_is_missing(st, username, block_key, scope, fields) ==
    IF Owner # username THEN Raise("AssertionError", st)
    ELSE LET many == get_many(st, username, <<block_key>>, scope, fields)
         IN  IF many.outcome # "ok" THEN many
             ELSE IF many.yielded = <<>> \/ many.yielded[1][2] = EmptyDict
                  THEN [Raise("DoesNotExist", st) EXCEPT !.queries = many.queries]
                  ELSE [many EXCEPT !.yielded = <<>>, !.ret = many.yielded[1][2]]

\* get: the first entry of get_many over [block_key]
get(st, username, block_key, scope, fields) ==
    IF Owner # username THEN Raise("AssertionError", st)
    ELSE LET many == get_many(st, username, <<block_key>>, scope, fields)
         IN  IF many.outcome # "ok" THEN many
             ELSE IF many.yielded = <<>>
                  THEN [Raise("DoesNotExist", st) EXCEPT !.queries = many.queries]
                  ELSE [many EXCEPT !.yielded = <<>>, !.ret = many.yielded[1][2]]

\* ------------------------------------------------------------------------
\* set_many
\* ------------------------------------------------------------------------
\* update, keeping the stored value of a field that is written again
update_keep_stored(current_state, state) ==
    [f \in DOMAIN current_state \cup DOMAIN state |->
        IF f \in DOMAIN current_state THEN current_state[f] ELSE state[f]]

\* current_state.update(state)
update(current_state, state) ==
    [f \in DOMAIN current_state \cup DOMAIN state |->
        IF f \in DOMAIN state THEN state[f] ELSE current_state[f]]

\* set_update, overlaying on the row as it is stored at the time of the save
set_update_fresh(st, student_module, state, now) ==
    LET row == st[student_module.student][student_module.module_state_key]
        current_state == update(IF row.isNone THEN EmptyDict ELSE loads(row.text), state)
    IN  save(st, [student_module EXCEPT !.isNone = FALSE,
                                        !.text = dumps(current_state)], now)

\* set_update, saving only when the overlay changes the state
set_update_skip_unchanged(st, student_module, state, now) ==
    LET current_state == update(StateOf(student_module), state)
    IN  IF ~student_module.isNone /\ current_state = StateOf(student_module)
        THEN st
        ELSE save(st, [student_module EXCEPT !.isNone = FALSE,
                                             !.text = dumps(current_state)], now)

\* the branch "if not created" of set_many: the state is overlaid on the
\* state of the module that was read, and the module is saved
set_update(st, student_module, state, now) ==
    LET current_state == update(StateOf(student_module), state)
    IN  save(st, [student_module EXCEPT !.isNone = FALSE,
                                        !.text = dumps(current_state)], now)

\* set_item, creating the row without the defaults of get_or_create
set_item_no_defaults(st, now, user, usage_key, state) ==
    LET goc == get_or_create(st, user, usage_key, <<>>, now)
    IN  IF goc.created
        THEN [store |-> goc.store, created |-> TRUE, writes |-> 1]
        ELSE LET current_state == StateOf(goc.module)
                 merged == [f \in DOMAIN current_state \cup DOMAIN state |->
                               IF f \in DOMAIN state THEN state[f] ELSE current_state[f]]
                 student_module == [goc.module EXCEPT !.isNone = FALSE,
                                                      !.text = dumps(merged)]
             IN  [store |-> save(goc.store, student_module, now),
                  created |-> FALSE, writes |-> 1]

\* the body of the loop of set_many for one (usage_key, state) item
set_item(st, now, user, usage_key, state) ==
    LET goc == get_or_create(st, user, usage_key, dumps(state), now)
    IN  IF goc.created
        THEN [store |-> goc.store, created |-> TRUE, writes |-> 1]
        ELSE [store |-> set_update(goc.store, goc.module, state, now),
              created |-> FALSE, writes |-> 1]

RECURSIVE set_items(_, _, _, _, _, _)
set_items(st, now, user, batch, i, acc) ==
    IF i > Len(KeyOrder) THEN [acc EXCEPT !.store = st]
    ELSE IF KeyOrder[i] \notin DOMAIN batch
         THEN set_items(st, now, user, batch, i + 1, acc)
         ELSE LET r == set_item(st, now, user, KeyOrder[i], batch[KeyOrder[i]])
              IN  set_items(r.store, now, user, batch, i + 1,
                            [acc EXCEPT !.writes = @ + r.writes,
                                        !.queries = @ + 1,
                                        !.created = IF r.created
                                                    THEN @ \cup {KeyOrder[i]} ELSE @])

set_many(st, now, username, block_keys_to_state, scope) ==
    IF Owner # username THEN Raise("AssertionError", st)
    ELSE IF scope # UserState THEN Raise("ValueError", st)
    ELSE set_items(st, now, Owner, block_keys_to_state, 1,
                   Res("ok", <<>>, EmptyDict, st, 0, 0, {}))

set(st, now, username, block_key, state, scope) ==
    IF Owner # username THEN Raise("AssertionError", st)
    ELSE set_many(st, now, username, [k \in {block_key} |-> state], scope)

\* ------------------------------------------------------------------------
\* delete_many
\* ------------------------------------------------------------------------
\* del_fields, keeping the named fields instead of removing them
del_fields_keep_named(current_state, names) ==
    [f \in DOMAIN current_state \cap Range(names) |-> current_state[f]]

\* for field in fields: if field in current_state: del current_state[field]
del_fields(current_state, names) ==
    [f \in DOMAIN current_state \ Range(names) |-> current_state[f]]

\* delete_item, removing the row when fields is None
delete_item_drop_row(st, now, m, fields) ==
    IF fields.isNone
    THEN [ok |-> TRUE, store |-> [st EXCEPT ![m.student][m.module_state_key] = NoRow]]
    ELSE IF m.isNone
         THEN [ok |-> FALSE, store |-> st]
         ELSE [ok |-> TRUE,
               store |-> save(st, [m EXCEPT !.text =
                                      dumps([f \in DOMAIN loads(m.text) \ Range(fields.names)
                                                |-> loads(m.text)[f]])],
                              now)]

\* the body of the loop of delete_many for one loaded module
delete_item(st, now, m, fields) ==
    IF fields.isNone
    THEN [ok |-> TRUE,
          store |-> save(st, [m EXCEPT !.isNone = FALSE, !.text = <<>>], now)]
    ELSE IF m.isNone
         \* json.loads(None) raises TypeError
         THEN [ok |-> FALSE, store |-> st]
         ELSE [ok |-> TRUE,
               store |-> save(st, [m EXCEPT !.text =
                                      dumps(del_fields(loads(m.text), fields.names))],
                              now)]

RECURSIVE delete_modules(_, _, _, _, _, _)
delete_modules(st, now, modules, fields, i, acc) ==
    IF i > Len(modules) THEN [acc EXCEPT !.store = st]
    ELSE LET r == delete_item(st, now, modules[i][1], fields)
         IN  IF r.ok
             THEN delete_modules(r.store, now, modules, fields, i + 1,
                                 [acc EXCEPT !.writes = @ + 1])
             ELSE [acc EXCEPT !.store = st, !.outcome = "TypeError"]

\* delete_many, leaving an empty row for every key that had none
delete_many_upsert(st, now, username, block_keys, scope, fields) ==
    IF Owner # username THEN Raise("AssertionError", st)
    ELSE IF scope # UserState THEN Raise("ValueError", st)
    ELSE LET found == get_student_modules(st, username, block_keys)
             r == delete_modules(st, now, found.modules, fields, 1,
                                 Res("ok", <<>>, EmptyDict, st, found.queries, 0, {}))
         IN  [r EXCEPT !.store =
                 [r.store EXCEPT ![Owner] =
                     [k \in Keys |->
                         IF k \in Range(block_keys) /\ ~st[Owner][k].exists
                         THEN Row(FALSE, <<>>, now) ELSE @[k]]]]

\* delete_many, without the check of the scope
delete_many_any_scope(st, now, username, block_keys, scope, fields) ==
    IF Owner # username THEN Raise("AssertionError", st)
    ELSE LET found == get_student_modules(st, username, block_keys)
         IN  delete_modules(st, now, found.modules, fields, 1,
                            Res("ok", <<>>, EmptyDict, st, found.queries, 0, {}))

delete_many(st, now, username, block_keys, scope, fields) ==
    IF Owner # username THEN Raise("AssertionError", st)
    ELSE IF scope # UserState THEN Raise("ValueError", st)
    ELSE LET found == get_student_modules(st, username, block_keys)
         IN  delete_modules(st, now, found.modules, fields, 1,
                            Res("ok", <<>>, EmptyDict, st, found.queries, 0, {}))

\* delete, not passing the fields on to delete_many
delete_all_fields(st, now, username, block_key, scope, fields) ==
    IF Owner # username THEN Raise("AssertionError", st)
    ELSE delete_many(st, now, username, <<block_key>>, scope, NoFields)

delete(st, now, username, block_key, scope, fields) ==
    IF Owner # username THEN Raise("AssertionError", st)
    ELSE delete_many(st, now, username, <<block_key>>, scope, fields)

\* ------------------------------------------------------------------------
\* get_mod_date_many, fully consumed, and get_mod_date
\* ------------------------------------------------------------------------
\* ModDates, yielding the first stored field only
ModDates_first(m, usage_key) ==
    IF m.isNone THEN <<>>
    ELSE LET names == SelectSeq(FieldOrder, LAMBDA f : f \in DOMAIN loads(m.text))
         IN  [i \in DOMAIN names \cap {1} |-> <<usage_key, names[i], m.modified>>]

\* for field in json.loads(student_module.state): yield (usage_key, field, modified)
ModDates(m, usage_key) ==
    IF m.isNone THEN <<>>
    ELSE LET names == SelectSeq(FieldOrder, LAMBDA f : f \in DOMAIN loads(m.text))
         IN  [i \in DOMAIN names |-> <<usage_key, names[i], m.modified>>]

RECURSIVE ModDatesFrom(_, _)
ModDatesFrom(modules, i) ==
    IF i > Len(modules) THEN <<>>
    ELSE ModDates(modules[i][1], modules[i][2]) \o ModDatesFrom(modules, i + 1)

\* get_mod_date_many, checking the scope before the username
get_mod_date_many_scope_first(st, username, block_keys, scope, fields) ==
    IF scope # UserState THEN Raise("ValueError", st)
    ELSE IF Owner # username THEN Raise("AssertionError", st)
    ELSE LET found == get_student_modules(st, username, block_keys)
         IN  Res("ok", ModDatesFrom(found.modules, 1), EmptyDict, st,
                 found.queries, 0, {})

get_mod_date_many(st, username, block_keys, scope, fields) ==
    IF Owner # username THEN Raise("AssertionError", st)
    ELSE IF scope # UserState THEN Raise("ValueError", st)
    ELSE LET found == get_student_modules(st, username, block_keys)
         IN  Res("ok", ModDatesFrom(found.modules, 1), EmptyDict, st,
                 found.queries, 0, {})

\* {field: date for (_, field, date) in results}
get_mod_date(st, username, block_key, scope, fields) ==
    LET results == get_mod_date_many(st, username, <<block_key>>, scope, fields)
    IN  IF results.outcome # "ok" THEN results
        ELSE [results EXCEPT
                !.yielded = <<>>,
                !.ret = [f \in {results.yielded[i][2] : i \in DOMAIN results.yielded} |->
                            LET j == CHOOSE j \in DOMAIN results.yielded :
                                        /\ results.yielded[j][2] = f
                                        /\ \A h \in DOMAIN results.yielded :
                                              results.yielded[h][2] = f => h <= j
                            IN  results.yielded[j][3]]]

\* ------------------------------------------------------------------------
\* get_history, iter_all_for_block, iter_all_for_course
\* ------------------------------------------------------------------------
\* get_history, answering with an empty history
get_history_empty(st, username, block_key, scope) ==
    IF Owner # username THEN Raise("AssertionError", st)
    ELSE IF scope # UserState THEN Raise("ValueError", st)
    ELSE Res("ok", <<>>, EmptyDict, st, 0, 0, {})

get_history(st, username, block_key, scope) ==
    IF Owner # username THEN Raise("AssertionError", st)
    ELSE IF scope # UserState THEN Raise("ValueError", st)
    ELSE Raise("NotImplementedError", st)

iter_all_for_block(st, block_key, scope) ==
    IF scope # UserState THEN Raise("ValueError", st)
    ELSE Raise("NotImplementedError", st)

iter_all_for_course(st, course_key, scope) ==
    IF scope # UserState THEN Raise("ValueError", st)
    ELSE Raise("NotImplementedError", st)

\* ------------------------------------------------------------------------
\* Course tabs (openedx/core/djangoapps/course_views/tabs.py): who sees a tab
\* ------------------------------------------------------------------------
\* the user argument of is_enabled: None, the anonymous user, or a user
\* who may have staff access to the course and may be enrolled in it
TabUser(kind, staff, enrolled) ==
    [kind |-> kind, staff |-> staff, enrolled |-> enrolled]
NoUser == TabUser("none", FALSE, FALSE)
AnonymousUser == TabUser("anonymous", FALSE, FALSE)
TabUsers == {NoUser, AnonymousUser} \cup
            {TabUser("user", st, en) : st, en \in BOOLEAN}

\* the course and the settings, as far as is_enabled reads them
Courses == [hide_progress_tab : BOOLEAN]
Settings == [ENABLE_DISCUSSION_SERVICE : BOOLEAN, CUSTOM_COURSES_EDX : BOOLEAN]

TabTypes == {"EnrolledOrStaffTab", "courseware", "progress", "discussion"}

\* bool(user): None is false, a user object is true
Truthy(user) == user.kind # "none"

is_authenticated(user) == user.kind = "user"

\* courseware.access.has_access(user, 'staff', course, course.id)
has_access(user, course) == user.staff

\* CourseEnrollment.is_enrolled(user, course.id)
is_enrolled(user, course) == user.enrolled

is_user_staff(course, user) == has_access(user, course)

is_user_enrolled_or_staff(course, user) ==
    is_user_staff(course, user) \/ is_enrolled(user, course)

AuthenticatedCourseTab_is_enabled(course, settings, user) ==
    ~Truthy(user) \/ is_authenticated(user)

EnrolledOrStaffTab_is_enabled(course, settings, user) ==
    IF ~Truthy(user) THEN TRUE
    ELSE is_user_enrolled_or_staff(course, user)

ProgressTab_is_enabled(course, settings, user) ==
    LET super_can_display == EnrolledOrStaffTab_is_enabled(course, settings, user)
    IN  super_can_display /\ ~course.hide_progress_tab

DiscussionTab_is_enabled(course, settings, user, ccx) ==
    IF settings.CUSTOM_COURSES_EDX /\ ccx THEN FALSE
    ELSE LET super_can_display ==
                 EnrolledOrStaffTab_is_enabled(course, settings, user)
         IN  settings.ENABLE_DISCUSSION_SERVICE /\ super_can_display

\* tab.is_enabled(course, settings, user) for a tab of the given type;
\* CoursewareTab does not override EnrolledOrStaffTab.is_enabled
is_enabled(type, course, settings, user, ccx) ==
    CASE type = "progress" -> ProgressTab_is_enabled(course, settings, user)
      [] type = "discussion" -> DiscussionTab_is_enabled(course, settings, user, ccx)
      [] OTHER -> EnrolledOrStaffTab_is_enabled(course, settings, user)

\* ------------------------------------------------------------------------
\* Course tabs: HideableTab and WikiTab
\* ------------------------------------------------------------------------
TabNames == {"Wiki", "Notes"}

\* a tab_dict: None, or a dict with 'type', 'name' and possibly 'is_hidden'
TabDict(name, has_hidden, is_hidden) ==
    [isNone |-> FALSE, type |-> "wiki", name |-> name,
     has_hidden |-> has_hidden, is_hidden |-> is_hidden]
NoTabDict == [isNone |-> TRUE, type |-> "wiki", name |-> "Wiki",
              has_hidden |-> FALSE, is_hidden |-> FALSE]
TabDicts == {NoTabDict} \cup
            {TabDict(n, FALSE, FALSE) : n \in TabNames} \cup
            {TabDict(n, TRUE, h) : n \in TabNames, h \in BOOLEAN}

\* tab_dict.get('is_hidden', False)
dict_get_is_hidden(tab_dict) ==
    IF tab_dict.has_hidden THEN tab_dict.is_hidden ELSE FALSE

\* xmodule.tabs.CourseTab: __init__, to_json and __eq__ keep and compare
\* the type and the name
CourseTab_init(type, name, tab_id) ==
    [type |-> type, name |-> name, tab_id |-> tab_id, is_hidden |-> FALSE]

CourseTab_to_json(self) == TabDict(self.name, FALSE, FALSE)

CourseTab_eq(self, other) == self.type = other.type /\ self.name = other.name

HideableTab_init(type, name, tab_id, tab_dict) ==
    [CourseTab_init(type, name, tab_id) EXCEPT
        !.is_hidden = IF ~tab_dict.isNone THEN dict_get_is_hidden(tab_dict)
                      ELSE FALSE]

\* self['is_hidden']
HideableTab_getitem(self) == self.is_hidden

\* __setitem__, keeping the flag once it is set
HideableTab_setitem_sticky(self, value) ==
    [self EXCEPT !.is_hidden = @ \/ value]

\* self['is_hidden'] = value
HideableTab_setitem(self, value) == [self EXCEPT !.is_hidden = value]

HideableTab_to_json(self) ==
    LET to_json_val == CourseTab_to_json(self)
    IN  IF self.is_hidden
        THEN [to_json_val EXCEPT !.has_hidden = TRUE, !.is_hidden = TRUE]
        ELSE to_json_val

\* other.get('is_hidden', False) on a tab reads its is_hidden
HideableTab_eq(self, other) ==
    IF ~CourseTab_eq(self, other) THEN FALSE
    ELSE self.is_hidden = other.is_hidden

WikiTab_init(tab_dict) ==
    HideableTab_init("wiki", IF ~tab_dict.isNone THEN tab_dict.name ELSE "Wiki",
                     "wiki", tab_dict)

\* no tab has been constructed, no call has been made on a tab
NoTab == [obj |-> WikiTab_init(NoTabDict), dict |-> NoTabDict,
          assigned |-> <<>>, built |-> FALSE]

NoAnswer == [op |-> "none", type |-> "wiki", user |-> NoUser,
             course |-> [hide_progress_tab |-> FALSE],
             settings |-> [ENABLE_DISCUSSION_SERVICE |-> FALSE,
                           CUSTOM_COURSES_EDX |-> FALSE],
             ccx |-> FALSE, ret |-> FALSE, json |-> NoTabDict,
             copy |-> WikiTab_init(NoTabDict)]

\* ------------------------------------------------------------------------
\* The client used by one thread: every call runs to completion
\* ------------------------------------------------------------------------
NoBatch == [k \in {} |-> EmptyDict]

Idle == [op |-> "idle", username |-> Owner, scope |-> UserState, keys |-> <<>>,
         fields |-> NoFields, batch |-> NoBatch, outcome |-> "ok",
         yielded |-> <<>>, ret |-> EmptyDict, queries |-> 0,
         writes |-> 0, created |-> {},
         before |-> [s \in Users |-> [k \in Keys |-> NoRow]]]

Call(op, username, scope, keys, fields, batch, r) ==
    /\ last.op = "idle"
    /\ store' = r.store
    /\ last' = [op |-> op, username |-> username, scope |-> scope, keys |-> keys,
                fields |-> fields, batch |-> batch, outcome |-> r.outcome,
                yielded |-> r.yielded, ret |-> r.ret, queries |-> r.queries,
                writes |-> r.writes, created |-> r.created, before |-> store]
    /\ UNCHANGED <<clock, threads, log, tab, answer>>

\* the callers of a specification: (username, scope) pairs
OwnerCalls == {<<Owner, UserState>>}
AllCalls == Users \X Scopes

Get(callers, keys) ==
    \E c \in callers, k \in keys, fields \in FieldArgs :
        Call("get", c[1], c[2], <<k>>, fields, NoBatch,
             get(store, c[1], k, c[2], fields))

Set(callers, keys) ==
    \E c \in callers, k \in keys, state \in Dicts :
        Call("set", c[1], c[2], <<k>>, NoFields, [x \in {k} |-> state],
             set(store, clock, c[1], k, state, c[2]))

Delete(callers, keys) ==
    \E c \in callers, k \in keys, fields \in FieldArgs :
        Call("delete", c[1], c[2], <<k>>, fields, NoBatch,
             delete(store, clock, c[1], k, c[2], fields))

GetModDate(callers, keys) ==
    \E c \in callers, k \in keys, fields \in FieldArgs :
        Call("get_mod_date", c[1], c[2], <<k>>, fields, NoBatch,
             get_mod_date(store, c[1], k, c[2], fields))

GetMany(callers, keys) ==
    \E c \in callers, ks \in KeySeqs(keys), fields \in FieldArgs :
        Call("get_many", c[1], c[2], ks, fields, NoBatch,
             get_many(store, c[1], ks, c[2], fields))

SetMany(callers, keys) ==
    \E c \in callers, batch \in Batches(keys) :
        Call("set_many", c[1], c[2], <<>>, NoFields, batch,
             set_many(store, clock, c[1], batch, c[2]))

DeleteMany(callers, keys) ==
    \E c \in callers, ks \in KeySeqs(keys), fields \in FieldArgs :
        Call("delete_many", c[1], c[2], ks, fields, NoBatch,
             delete_many(store, clock, c[1], ks, c[2], fields))

GetModDateMany(callers, keys) ==
    \E c \in callers, ks \in KeySeqs(keys), fields \in FieldArgs :
        Call("get_mod_date_many", c[1], c[2], ks, fields, NoBatch,
             get_mod_date_many(store, c[1], ks, c[2], fields))

GetHistory(callers, keys) ==
    \E c \in callers, k \in keys :
        Call("get_history", c[1], c[2], <<k>>, NoFields, NoBatch,
             get_history(store, c[1], k, c[2]))

IterAllForBlock(callers, keys) ==
    \E c \in callers, k \in keys :
        /\ c[1] = Owner
        /\ Call("iter_all_for_block", c[1], c[2], <<k>>, NoFields, NoBatch,
                iter_all_for_block(store, k, c[2]))

IterAllForCourse(callers, keys) ==
    \E c \in callers, k \in keys :
        /\ c[1] = Owner
        /\ Call("iter_all_for_course", c[1], c[2], <<k>>, NoFields, NoBatch,
                iter_all_for_course(store, k.course_key, c[2]))

\* another part of the application creates the owner's row without a state
ExternalCreate(keys) ==
    \E k \in keys :
        /\ ~store[Owner][k].exists
        /\ Call("external", Owner, UserState, <<k>>, NoFields, NoBatch,
                Res("ok", <<>>, EmptyDict,
                    [store EXCEPT ![Owner][k] = Row(TRUE, <<>>, clock)], 0, 1, {k}))

\* the call returns to its caller
Return ==
    /\ last.op # "idle"
    /\ last' = Idle
    /\ UNCHANGED <<store, clock, threads, log, tab, answer>>

\* time passes between calls
Tick ==
    /\ last.op = "idle"
    /\ clock < MaxClock
    /\ clock' = clock + 1
    /\ UNCHANGED <<store, last, threads, log, tab, answer>>

NoThreads == <<>>

Init ==
    /\ store = [s \in Users |-> [k \in Keys |-> NoRow]]
    /\ clock = 0
    /\ last = Idle
    /\ threads = NoThreads
    /\ log = <<>>
    /\ tab = NoTab
    /\ answer = NoAnswer

\* the keys of the specifications in which time passes: one key per course
TwoKeys == {K1, K3}

Next ==
    \/ Get(OwnerCalls, TwoKeys)
    \/ Set(OwnerCalls, TwoKeys)
    \/ Delete(OwnerCalls, TwoKeys)
    \/ GetModDate(OwnerCalls, TwoKeys)
    \/ GetMany(OwnerCalls, TwoKeys)
    \/ SetMany(OwnerCalls, TwoKeys)
    \/ DeleteMany(OwnerCalls, TwoKeys)
    \/ GetModDateMany(OwnerCalls, TwoKeys)
    \/ GetHistory(OwnerCalls, TwoKeys)
    \/ IterAllForBlock(OwnerCalls, TwoKeys)
    \/ IterAllForCourse(OwnerCalls, TwoKeys)
    \/ ExternalCreate(TwoKeys)
    \/ Return
    \/ Tick

\* the owner's client, called with the owner's name and the supported scope
Spec == Init /\ [][Next]_vars

NextCallers ==
    \/ Get(AllCalls, TwoKeys)
    \/ Set(AllCalls, TwoKeys)
    \/ Delete(AllCalls, TwoKeys)
    \/ GetModDate(AllCalls, TwoKeys)
    \/ GetMany(AllCalls, TwoKeys)
    \/ SetMany(AllCalls, TwoKeys)
    \/ DeleteMany(AllCalls, TwoKeys)
    \/ GetModDateMany(AllCalls, TwoKeys)
    \/ GetHistory(AllCalls, TwoKeys)
    \/ IterAllForBlock(AllCalls, TwoKeys)
    \/ IterAllForCourse(AllCalls, TwoKeys)
    \/ ExternalCreate(TwoKeys)
    \/ Return
    \/ Tick

\* the client called with any username and any scope
SpecCallers == Init /\ [][NextCallers]_vars

NextBatch ==
    \/ Get(OwnerCalls, Keys)
    \/ Set(OwnerCalls, Keys)
    \/ Delete(OwnerCalls, Keys)
    \/ GetModDate(OwnerCalls, Keys)
    \/ GetMany(OwnerCalls, Keys)
    \/ SetMany(OwnerCalls, Keys)
    \/ DeleteMany(OwnerCalls, Keys)
    \/ GetModDateMany(OwnerCalls, Keys)
    \/ ExternalCreate(Keys)
    \/ Return

\* the owner's client over keys that share a course, at one instant
SpecBatch == Init /\ [][NextBatch]_vars

\* ------------------------------------------------------------------------
\* The generators: get_many and get_mod_date_many contain yield, so the
\* call runs none of the body and returns a generator; the body, from its
\* first line, runs when the caller asks for the first item
\* ------------------------------------------------------------------------
\* the call of a generator function: nothing is checked, nothing is read
Generator == Res("pending", <<>>, EmptyDict, store, 0, 0, {})

LazyGetMany(callers, keys) ==
    \E c \in callers, ks \in KeySeqs(keys), fields \in FieldArgs :
        Call("get_many", c[1], c[2], ks, fields, NoBatch, Generator)

LazyGetModDateMany(callers, keys) ==
    \E c \in callers, ks \in KeySeqs(keys), fields \in FieldArgs :
        Call("get_mod_date_many", c[1], c[2], ks, fields, NoBatch, Generator)

\* the caller iterates over the generator: the body runs, from the assert
Consume ==
    /\ last.outcome = "pending"
    /\ LET r == IF last.op = "get_many"
                THEN get_many(store, last.username, last.keys, last.scope,
                              last.fields)
                ELSE get_mod_date_many(store, last.username, last.keys,
                                       last.scope, last.fields)
       IN  last' = [last EXCEPT !.outcome = r.outcome, !.yielded = r.yielded,
                                !.queries = r.queries]
    /\ UNCHANGED <<store, clock, threads, log, tab, answer>>

NextLazy ==
    \/ LazyGetMany(AllCalls, TwoKeys)
    \/ LazyGetModDateMany(AllCalls, TwoKeys)
    \/ Consume
    \/ SetMany(AllCalls, TwoKeys)
    \/ DeleteMany(AllCalls, TwoKeys)
    \/ Return

\* the client with the call of a generator and its consumption as two steps
SpecLazy == Init /\ [][NextLazy]_vars

\* ------------------------------------------------------------------------
\* A failing table: the n-th database call of the loop raises DatabaseError.
\* The loops of set_many and delete_many have no try and no transaction of
\* their own, so the exception leaves the method at that point.
\* ------------------------------------------------------------------------
\* the loop of set_many over items, the get_or_create of item n raising
RECURSIVE set_items_until(_, _, _, _, _, _, _, _)
set_items_until(st, now, user, batch, items, i, n, acc) ==
    IF i > Len(items) THEN [acc EXCEPT !.store = st]
    ELSE IF i = n
         THEN [acc EXCEPT !.store = st, !.outcome = "DatabaseError",
                          !.queries = @ + 1]
         ELSE LET r == set_item(st, now, user, items[i], batch[items[i]])
              IN  set_items_until(r.store, now, user, batch, items, i + 1, n,
                                  [acc EXCEPT !.writes = @ + r.writes,
                                              !.queries = @ + 1,
                                              !.created = IF r.created
                                                          THEN @ \cup {items[i]} ELSE @])

\* set_many_failing, inside a transaction that is rolled back on the error
set_many_failing_atomic(st, now, username, block_keys_to_state, scope, items, n) ==
    IF Owner # username THEN Raise("AssertionError", st)
    ELSE IF scope # UserState THEN Raise("ValueError", st)
    ELSE LET r == set_items_until(st, now, Owner, block_keys_to_state, items, 1, n,
                                  Res("ok", <<>>, EmptyDict, st, 0, 0, {}))
         IN  IF r.outcome = "ok" THEN r ELSE [r EXCEPT !.store = st]

\* set_many over a table that fails at item n of block_keys_to_state.items()
set_many_failing(st, now, username, block_keys_to_state, scope, items, n) ==
    IF Owner # username THEN Raise("AssertionError", st)
    ELSE IF scope # UserState THEN Raise("ValueError", st)
    ELSE set_items_until(st, now, Owner, block_keys_to_state, items, 1, n,
                         Res("ok", <<>>, EmptyDict, st, 0, 0, {}))

\* the loop of delete_many over the modules, the save of module n raising
RECURSIVE delete_modules_until(_, _, _, _, _, _, _)
delete_modules_until(st, now, modules, fields, i, n, acc) ==
    IF i > Len(modules) THEN [acc EXCEPT !.store = st]
    ELSE LET r == delete_item(st, now, modules[i][1], fields)
         IN  IF ~r.ok THEN [acc EXCEPT !.store = st, !.outcome = "TypeError"]
             ELSE IF i = n
                  THEN [acc EXCEPT !.store = st, !.outcome = "DatabaseError"]
                  ELSE delete_modules_until(r.store, now, modules, fields, i + 1, n,
                                            [acc EXCEPT !.writes = @ + 1])

\* delete_many over a table that fails at the save of module n
delete_many_failing(st, now, username, block_keys, scope, fields, n) ==
    IF Owner # username THEN Raise("AssertionError", st)
    ELSE IF scope # UserState THEN Raise("ValueError", st)
    ELSE LET found == get_student_modules(st, username, block_keys)
         IN  delete_modules_until(st, now, found.modules, fields, 1, n,
                                  Res("ok", <<>>, EmptyDict, st, found.queries, 0, {}))

\* the orders in which block_keys_to_state.items() can list the batch
ItemOrders(batch) ==
    {items \in KeySeqs(DOMAIN batch) : Len(items) = Cardinality(DOMAIN batch)}

SetManyFails(callers, keys) ==
    \E c \in callers, batch \in Batches(keys) \ {NoBatch} :
    \E items \in ItemOrders(batch), n \in 1..Cardinality(keys) :
        /\ n <= Len(items)
        /\ Call("set_many", c[1], c[2], items, NoFields, batch,
                set_many_failing(store, clock, c[1], batch, c[2], items, n))

DeleteManyFails(callers, keys) ==
    \E c \in callers, ks \in KeySeqs(keys), fields \in FieldArgs,
       n \in 1..Cardinality(keys) :
        /\ n <= Len(get_student_modules(store, Owner, ks).modules)
        /\ Call("delete_many", c[1], c[2], ks, fields, NoBatch,
                delete_many_failing(store, clock, c[1], ks, c[2], fields, n))

NextFail ==
    \/ SetMany(OwnerCalls, TwoKeys)
    \/ DeleteMany(OwnerCalls, TwoKeys)
    \/ SetManyFails(OwnerCalls, TwoKeys)
    \/ DeleteManyFails(OwnerCalls, TwoKeys)
    \/ ExternalCreate(TwoKeys)
    \/ Return
    \/ Tick

\* the owner's client over a table that can fail inside a batch
SpecFail == Init /\ [][NextFail]_vars

\* ------------------------------------------------------------------------
\* The owner's writes on a table that holds rows of another student
\* ------------------------------------------------------------------------
\* the rows of the other student: none, or a row holding {a: 1}
OtherRows == {NoRow, Row(FALSE, dumps(Dict1("a", 1)), 0)}

InitFrame ==
    /\ store \in {[s \in Users |-> [k \in Keys |->
                      IF s # Owner /\ k \in TwoKeys THEN rows[k] ELSE NoRow]] :
                  rows \in [TwoKeys -> OtherRows]}
    /\ clock = 0
    /\ last = Idle
    /\ threads = NoThreads
    /\ log = <<>>
    /\ tab = NoTab
    /\ answer = NoAnswer

NextFrame ==
    \/ Set(OwnerCalls, TwoKeys)
    \/ SetMany(OwnerCalls, TwoKeys)
    \/ Delete(OwnerCalls, TwoKeys)
    \/ DeleteMany(OwnerCalls, TwoKeys)
    \/ ExternalCreate(TwoKeys)
    \/ Return
    \/ Tick

\* the owner's writes next to the rows of another student
SpecFrame == InitFrame /\ [][NextFrame]_vars

\* ------------------------------------------------------------------------
\* Calls on course tabs
\* ------------------------------------------------------------------------
InitTabs ==
    /\ store = [s \in Users |-> [k \in Keys |-> NoRow]]
    /\ clock = 0
    /\ last = Idle
    /\ threads = NoThreads
    /\ log = <<>>
    /\ tab = NoTab
    /\ answer = NoAnswer

\* tab.is_enabled(course, settings, user=user)
IsEnabled ==
    /\ \E type \in TabTypes, user \in TabUsers, course \in Courses,
          settings \in Settings, ccx \in BOOLEAN :
          answer' = [NoAnswer EXCEPT
                        !.op = "is_enabled", !.type = type, !.user = user,
                        !.course = course, !.settings = settings, !.ccx = ccx,
                        !.ret = is_enabled(type, course, settings, user, ccx)]
    /\ UNCHANGED <<store, clock, last, threads, log, tab>>

\* tab = WikiTab(tab_dict)
NewWikiTab ==
    /\ \E tab_dict \in TabDicts :
          tab' = [obj |-> WikiTab_init(tab_dict), dict |-> tab_dict,
                  assigned |-> <<>>, built |-> TRUE]
    /\ answer' = [NoAnswer EXCEPT !.op = "init"]
    /\ UNCHANGED <<store, clock, last, threads, log>>

\* tab['is_hidden'] = value
SetItem ==
    /\ tab.built
    /\ Len(tab.assigned) < MaxAssign
    /\ \E value \in BOOLEAN :
          /\ tab' = [tab EXCEPT !.obj = HideableTab_setitem(@, value),
                                !.assigned = Append(@, value)]
          /\ answer' = [NoAnswer EXCEPT !.op = "setitem", !.ret = value]
    /\ UNCHANGED <<store, clock, last, threads, log>>

\* tab['is_hidden']
GetItem ==
    /\ tab.built
    /\ answer' = [NoAnswer EXCEPT !.op = "getitem",
                                  !.ret = HideableTab_getitem(tab.obj)]
    /\ UNCHANGED <<store, clock, last, threads, log, tab>>

\* tab.to_json()
ToJson ==
    /\ tab.built
    /\ answer' = [NoAnswer EXCEPT !.op = "to_json",
                                  !.json = HideableTab_to_json(tab.obj)]
    /\ UNCHANGED <<store, clock, last, threads, log, tab>>

\* copy = WikiTab(the dict to_json returned); tab == copy
FromJson ==
    /\ answer.op = "to_json"
    /\ answer' = [answer EXCEPT
                      !.op = "from_json",
                      !.copy = WikiTab_init(answer.json),
                      !.ret = HideableTab_eq(tab.obj, WikiTab_init(answer.json))]
    /\ UNCHANGED <<store, clock, last, threads, log, tab>>

NextAccess == IsEnabled

\* is_enabled asked of the tabs for enrolled users and staff
SpecAccess == InitTabs /\ [][NextAccess]_vars

NextTabs ==
    \/ NewWikiTab
    \/ SetItem
    \/ GetItem
    \/ ToJson
    \/ FromJson

\* the calls made on a WikiTab
SpecTabs == InitTabs /\ [][NextTabs]_vars

\* ------------------------------------------------------------------------
\* Concurrent writers: two threads inside set_many, one database step at a time
\* ------------------------------------------------------------------------
Threads == {"A", "B"}

RaceKeys == {K1, K3}

\* the rows the writers find: none, a row without state, a row holding {a: 1}
RaceRows == {NoRow, Row(TRUE, <<>>, 0), Row(FALSE, dumps(Dict1("a", 1)), 0)}

NoModules == [k \in {} |-> Module(Owner, K1, NoRow)]

ThreadIdle == [pc |-> "idle", batch |-> NoBatch, items |-> <<>>, modules |-> NoModules]

InitRace ==
    /\ store \in {[s \in Users |-> [k \in Keys |->
                      IF s = Owner /\ k \in RaceKeys THEN rows[k] ELSE NoRow]] :
                  rows \in [RaceKeys -> RaceRows]}
    /\ clock = 0
    /\ last = Idle
    /\ threads = [t \in Threads |-> ThreadIdle]
    /\ log = <<>>
    /\ tab = NoTab
    /\ answer = NoAnswer

Event(t, kind, k) == [thread |-> t, kind |-> kind, key |-> k]

\* the thread has finished an item: the loop goes on, or set_many returns
Advance(th) ==
    [th EXCEPT !.items = Tail(@),
               !.pc = IF Len(th.items) > 1 THEN "select" ELSE "done"]

\* set_many is called: the username and the scope pass the checks, and the
\* loop starts over block_keys_to_state.items(), in the order of the dict
RaceBegin(t) ==
    /\ threads[t].pc = "idle"
    /\ \E batch \in Batches(RaceKeys) \ {NoBatch} :
       \E items \in KeySeqs(RaceKeys) :
          /\ Range(items) = DOMAIN batch
          /\ Len(items) = Cardinality(DOMAIN batch)
          /\ threads' = [threads EXCEPT ![t] =
                            [ThreadIdle EXCEPT !.pc = "select", !.batch = batch,
                                               !.items = items]]
    /\ UNCHANGED <<store, clock, last, log, tab, answer>>

\* RaceSelect, querying the rows of the whole batch at the first key and
\* using the modules of that query for the later keys
RaceSelect_reuse(t) ==
    LET th == threads[t]
        k == th.items[1]
    IN  /\ th.pc = "select"
        /\ IF store[Owner][k].exists
           THEN /\ threads' = [threads EXCEPT ![t] =
                                  [th EXCEPT !.pc = "update",
                                             !.modules =
                                                 [x \in DOMAIN @ \cup
                                                        {y \in DOMAIN th.batch :
                                                            store[Owner][y].exists} |->
                                                     IF x \in DOMAIN @ THEN @[x]
                                                     ELSE Module(Owner, x, store[Owner][x])]]]
                /\ log' = Append(log, Event(t, "read", k))
           ELSE /\ threads' = [threads EXCEPT ![t] = [th EXCEPT !.pc = "insert"]]
                /\ log' = Append(log, Event(t, "miss", k))
        /\ UNCHANGED <<store, clock, last, tab, answer>>

\* get_or_create looks the row up
RaceSelect(t) ==
    LET th == threads[t]
        k == th.items[1]
    IN  /\ th.pc = "select"
        /\ IF store[Owner][k].exists
           THEN /\ threads' = [threads EXCEPT ![t] =
                                  [th EXCEPT !.pc = "update",
                                             !.modules = [x \in DOMAIN @ \cup {k} |->
                                                 IF x = k
                                                 THEN Module(Owner, k, store[Owner][k])
                                                 ELSE @[x]]]]
                /\ log' = Append(log, Event(t, "read", k))
           ELSE /\ threads' = [threads EXCEPT ![t] = [th EXCEPT !.pc = "insert"]]
                /\ log' = Append(log, Event(t, "miss", k))
        /\ UNCHANGED <<store, clock, last, tab, answer>>

\* get_or_create found no row and inserts one; when another thread has
\* inserted the row meanwhile the insert fails on the unique key and
\* get_or_create returns the row that is there
RaceInsert(t) ==
    LET th == threads[t]
        k == th.items[1]
        goc == get_or_create(store, Owner, k, dumps(th.batch[k]), clock)
    IN  /\ th.pc = "insert"
        /\ store' = goc.store
        /\ IF goc.created
           THEN /\ threads' = [threads EXCEPT ![t] = Advance(th)]
                /\ log' = Append(log, Event(t, "create", k))
           ELSE /\ threads' = [threads EXCEPT ![t] =
                                  [th EXCEPT !.pc = "update",
                                             !.modules = [x \in DOMAIN @ \cup {k} |->
                                                 IF x = k THEN goc.module ELSE @[x]]]]
                /\ log' = Append(log, Event(t, "read", k))
        /\ UNCHANGED <<clock, last, tab, answer>>

\* the branch "if not created": overlay on the module read, and save
RaceUpdate(t) ==
    LET th == threads[t]
        k == th.items[1]
    IN  /\ th.pc = "update"
        /\ IF store[Owner][k].exists
           THEN /\ store' = set_update(store, th.modules[k], th.batch[k], clock)
                /\ threads' = [threads EXCEPT ![t] = Advance(th)]
                /\ log' = Append(log, Event(t, "write", k))
           \* save(force_update=True) of a row that is gone raises DatabaseError
           ELSE /\ store' = store
                /\ threads' = [threads EXCEPT ![t] = [th EXCEPT !.pc = "error"]]
                /\ log' = log
        /\ UNCHANGED <<clock, last, tab, answer>>

NextRace ==
    \E t \in Threads :
        \/ RaceBegin(t)
        \/ RaceSelect(t)
        \/ RaceInsert(t)
        \/ RaceUpdate(t)

\* two threads, each calling set_many once, with the owner's client
SpecRace == InitRace /\ [][NextRace]_vars

\* ------------------------------------------------------------------------
\* Properties of the sequential client
\* ------------------------------------------------------------------------
\* the field map a row holds
StoredMap(row) == IF row.isNone THEN EmptyDict ELSE loads(row.text)

HoldsMap(row) == row.exists /\ ~row.isNone

Before(k) == last.before[Owner][k]
After(k) == store[Owner][k]

\* what get(u, k) returns in the current state
GetNow(k) == get(store, Owner, k, UserState, NoFields)

Returned == last.op # "idle" /\ last.outcome = "ok"

\* C1: after set or set_many has overlaid P on an existing record holding F,
\* get returns P's value for every key of P, F's value for every key of F
\* that is not in P, and no other key.
C1_Overlay ==
    (Returned /\ last.op \in {"set", "set_many"}) =>
        \A k \in DOMAIN last.batch :
            HoldsMap(Before(k)) =>
                LET F == StoredMap(Before(k))
                    P == last.batch[k]
                    g == GetNow(k)
                IN  /\ g.outcome = "ok"
                    /\ DOMAIN g.ret = DOMAIN F \cup DOMAIN P
                    /\ \A f \in DOMAIN P : g.ret[f] = P[f]
                    /\ \A f \in DOMAIN F \ DOMAIN P : g.ret[f] = F[f]

\* a set that overwrites one stored field and preserves another
C1_Witness ==
    /\ Returned /\ last.op = "set"
    /\ \E k \in DOMAIN last.batch :
          /\ HoldsMap(Before(k))
          /\ \E f \in DOMAIN last.batch[k] \cap DOMAIN StoredMap(Before(k)) :
                StoredMap(Before(k))[f] # last.batch[k][f]
          /\ DOMAIN StoredMap(Before(k)) \ DOMAIN last.batch[k] # {}

\* C2: set(u, k, S) on a key without a record creates the record with fields
\* exactly S, and a get that follows returns exactly S.
C2_RoundTrip ==
    (Returned /\ last.op = "set" /\ ~Before(last.keys[1]).exists) =>
        LET k == last.keys[1]
            S == last.batch[k]
        IN  /\ HoldsMap(After(k))
            /\ StoredMap(After(k)) = S
            /\ GetNow(k).outcome = "ok"
            /\ GetNow(k).ret = S

\* a first write of a map of two fields
C2_Witness ==
    /\ Returned /\ last.op = "set"
    /\ ~Before(last.keys[1]).exists
    /\ DOMAIN last.batch[last.keys[1]] = Fields

\* C4: delete or delete_many with fields=None on a key that has a record
\* keeps the record and empties its field map: get returns {} and does not
\* raise DoesNotExist.
C4_DeleteAll ==
    (last.op \in {"delete", "delete_many"} /\ last.fields.isNone) =>
        /\ last.outcome = "ok"
        /\ \A k \in Range(last.keys) :
              Before(k).exists =>
                  /\ After(k).exists
                  /\ GetNow(k).outcome = "ok"
                  /\ GetNow(k).ret = EmptyDict

\* a delete of every field of a record that held fields
C4_Witness ==
    /\ last.op = "delete" /\ last.fields.isNone
    /\ HoldsMap(Before(last.keys[1]))
    /\ StoredMap(Before(last.keys[1])) # EmptyDict
    /\ GetNow(last.keys[1]).ret = EmptyDict

\* the records a delete resolved
Resolved == {k \in Range(last.keys) : Before(k).exists}

C6_NotFound ==
    (last.op = "get" /\ last.username = Owner /\ last.scope = UserState) =>
        LET k == last.keys[1]
            many == get_many(last.before, Owner, <<k>>, UserState, last.fields)
        IN  /\ last.outcome \in {"ok", "DoesNotExist"}
            /\ last.outcome = "DoesNotExist" <=> ~Before(k).exists
            /\ last.outcome = "DoesNotExist" <=> many.yielded = <<>>
            /\ store = last.before

\* a get of a key never written, while another key has a record
C6_Witness ==
    /\ last.op = "get" /\ last.outcome = "DoesNotExist"
    /\ \E k \in Keys : After(k).exists

\* the tuples of get_mod_date_many for key k and field f
Tuples(k, f) ==
    {i \in DOMAIN last.yielded : last.yielded[i][1] = k /\ last.yielded[i][2] = f}

\* C10: get_mod_date_many yields one tuple per field stored in each requested
\* record, carrying the record's modified time, and nothing for a record
\* without stored fields or a missing record; get_mod_date maps every stored
\* field of the record to that one time.
C10_ModDates ==
    /\ (Returned /\ last.op = "get_mod_date_many") =>
          /\ \A i \in DOMAIN last.yielded :
                /\ last.yielded[i][1] \in Range(last.keys)
                /\ last.yielded[i][3] = Before(last.yielded[i][1]).modified
          /\ \A k \in Range(last.keys) : \A f \in Fields \cup {"c"} :
                Cardinality(Tuples(k, f)) =
                    IF Before(k).exists /\ f \in DOMAIN StoredMap(Before(k))
                    THEN 1 ELSE 0
    /\ (Returned /\ last.op = "get_mod_date") =>
          LET k == last.keys[1]
          IN  last.ret = [f \in (IF Before(k).exists THEN DOMAIN StoredMap(Before(k))
                                                      ELSE {}) |->
                            Before(k).modified]

\* mod dates of a record of two fields and of a record written at another time
C10_Witness ==
    /\ Returned /\ last.op = "get_mod_date_many"
    /\ \E i, j, h \in DOMAIN last.yielded :
          /\ i # j
          /\ last.yielded[i][1] = last.yielded[j][1]
          /\ last.yielded[h][3] # last.yielded[i][3]

\* ------------------------------------------------------------------------
\* Properties of calls with any username and any scope
\* ------------------------------------------------------------------------
ClientOps == {"get", "set", "delete", "get_mod_date", "get_many", "set_many",
              "delete_many", "get_mod_date_many", "get_history",
              "iter_all_for_block", "iter_all_for_course"}

UsernameOps == ClientOps \ {"iter_all_for_block", "iter_all_for_course"}

Entries(k) == {i \in DOMAIN last.yielded : last.yielded[i][1] = k}

\* C9: a fully consumed get_many over the keys K yields one entry for each
\* key of K that has a record, carrying the record's stored map ({} when it
\* is empty), and no entry for any other key.
C9_GetMany ==
    (Returned /\ last.op = "get_many") =>
        /\ \A k \in Keys :
              Cardinality(Entries(k)) =
                  IF k \in Range(last.keys) /\ Before(k).exists THEN 1 ELSE 0
        /\ \A i \in DOMAIN last.yielded :
              /\ last.yielded[i][1] \in Keys
              /\ last.yielded[i][2] = StoredMap(Before(last.yielded[i][1]))

\* a get_many of three keys: one without record, and two of one course, one
\* with an empty map and one with fields
C9_Witness ==
    /\ Returned /\ last.op = "get_many"
    /\ \E k \in Range(last.keys) : ~Before(k).exists
    /\ \E i, j \in DOMAIN last.yielded :
          /\ last.yielded[i][2] = EmptyDict
          /\ last.yielded[j][2] # EmptyDict
          /\ last.yielded[i][1].course_key = last.yielded[j][1].course_key

\* ------------------------------------------------------------------------
\* Properties of concurrent writers
\* ------------------------------------------------------------------------
\* the position in the log of the event of thread t on key k, 0 if none
Pos(t, kind, k) ==
    IF \E i \in DOMAIN log : log[i] = Event(t, kind, k)
    THEN CHOOSE i \in DOMAIN log : log[i] = Event(t, kind, k)
    ELSE 0

\* both threads have read and written the row of k, and both reads came
\* before either write
BothReadFirst(k) ==
    /\ \A t \in Threads : Pos(t, "read", k) > 0 /\ Pos(t, "write", k) > 0
    /\ \A t, u \in Threads : Pos(t, "read", k) < Pos(u, "write", k)

\* C3: when two set_many calls on one existing record both read the stored
\* map before either writes, neither call fails, and the stored map is the
\* map that was read overlaid with the later writer's fields only: a field
\* that only the earlier writer added is absent.
C3_LostUpdate ==
    /\ \A t \in DOMAIN threads : threads[t].pc # "error"
    /\ \A k \in RaceKeys : \A e, l \in DOMAIN threads :
          (BothReadFirst(k) /\ Pos(e, "write", k) < Pos(l, "write", k)) =>
              LET F == StateOf(threads[l].modules[k])
                  P == threads[l].batch[k]
                  G == StoredMap(store[Owner][k])
              IN  /\ StateOf(threads[e].modules[k]) = F
                  /\ DOMAIN G = DOMAIN F \cup DOMAIN P
                  /\ \A f \in DOMAIN P : G[f] = P[f]
                  /\ \A f \in DOMAIN F \ DOMAIN P : G[f] = F[f]
                  /\ \A f \in DOMAIN threads[e].batch[k] \ (DOMAIN F \cup DOMAIN P) :
                        f \notin DOMAIN G

\* both calls have returned, and a field the earlier writer added to a row
\* that held fields is not in the row
C3_Witness ==
    /\ \A t \in DOMAIN threads : threads[t].pc = "done"
    /\ \E k \in RaceKeys : \E e, l \in DOMAIN threads :
          /\ BothReadFirst(k)
          /\ Pos(e, "write", k) < Pos(l, "write", k)
          /\ StateOf(threads[e].modules[k]) # EmptyDict
          /\ DOMAIN threads[e].batch[k] \ DOMAIN StoredMap(store[Owner][k]) # {}

\* the position in the log at which thread t finished its step on key k
DonePos(t, k) ==
    IF Pos(t, "write", k) > 0 THEN Pos(t, "write", k) ELSE Pos(t, "create", k)

\* the position in the log at which thread t began its step on key k
StartPos(t, k) ==
    IF Pos(t, "miss", k) > 0 THEN Pos(t, "miss", k) ELSE Pos(t, "read", k)

\* the map thread t left in the row of k: its state in a row it created,
\* its state overlaid on the map it read otherwise
Left(t, k) ==
    IF Pos(t, "create", k) > 0 THEN threads[t].batch[k]
    ELSE update(StateOf(threads[t].modules[k]), threads[t].batch[k])

\* C20: set_many reads the row of a key right before it writes that key:
\* when another writer finished its step on k before this set_many read k,
\* however far this set_many was in its batch by then, the map it read is
\* the map the other writer left, and the stored map is that map overlaid
\* with this call's state, so every field of the other writer that this
\* call does not mention is kept.
C20_FreshRead ==
    \A k \in RaceKeys : \A e, l \in DOMAIN threads :
        (/\ e # l
         /\ DonePos(e, k) > 0
         /\ DonePos(e, k) < Pos(l, "read", k)
         /\ Pos(l, "write", k) > 0) =>
            LET G == StoredMap(store[Owner][k])
            IN  /\ StateOf(threads[l].modules[k]) = Left(e, k)
                /\ G = update(Left(e, k), threads[l].batch[k])
                /\ \A f \in DOMAIN threads[e].batch[k] \ DOMAIN threads[l].batch[k] :
                      f \in DOMAIN G /\ G[f] = threads[e].batch[k][f]

\* the other writer wrote the second key of a batch while set_many was at
\* the first key, and the field it added is in the row after both calls
C20_Witness ==
    /\ \A t \in DOMAIN threads : threads[t].pc = "done"
    /\ \E k, j \in RaceKeys : \E e, l \in DOMAIN threads :
          /\ e # l /\ j # k
          /\ StartPos(l, j) > 0
          /\ StartPos(l, j) < DonePos(e, k)
          /\ DonePos(e, k) < Pos(l, "read", k)
          /\ Pos(l, "write", k) > 0
          /\ \E f \in DOMAIN threads[e].batch[k] \ DOMAIN threads[l].batch[k] :
                f \in DOMAIN StoredMap(store[Owner][k])

\* ------------------------------------------------------------------------
\* Properties of the lookups
\* ------------------------------------------------------------------------
CoursesOf(keys) == {k.course_key : k \in Range(keys)}

\* the lookups get_many issues for the keys it was called with
Lookups == get_student_modules(last.before, Owner, last.keys).lookups

\* C11: a fully consumed get_many over keys of N courses issues N lookups,
\* one per course, each carrying every requested key of its course, however
\* many keys share a course and in whatever order the keys were given.
C11_BatchGrouping ==
    (Returned /\ last.op = "get_many") =>
        /\ last.queries = Cardinality(CoursesOf(last.keys))
        /\ Len(Lookups) = last.queries
        /\ \A c \in CoursesOf(last.keys) :
              \E i \in DOMAIN Lookups :
                  /\ Lookups[i][1] = c
                  /\ Range(Lookups[i][2]) =
                        {k \in Range(last.keys) : k.course_key = c}

\* a get_many of three keys of two courses, the two keys of one course given
\* apart from each other
C11_Witness ==
    /\ Returned /\ last.op = "get_many"
    /\ Len(last.keys) = 3
    /\ last.keys[1].course_key = last.keys[3].course_key
    /\ last.keys[2].course_key # last.keys[1].course_key
    /\ last.queries = 2

\* ------------------------------------------------------------------------
\* Properties of the life of a record
\* ------------------------------------------------------------------------
InCall == last.op # "idle"

\* C12: a call of the client creates a record only in set or set_many, for a
\* key of the call; a record that exists before a call exists after it,
\* whatever delete or delete_many was called with; and get of a key that has
\* a record does not raise DoesNotExist.
C12_Lifecycle ==
    InCall =>
        /\ \A k \in Keys :
              /\ Before(k).exists => After(k).exists
              /\ (~Before(k).exists /\ After(k).exists /\ last.op \in ClientOps) =>
                    (last.op \in {"set", "set_many"} /\ k \in DOMAIN last.batch)
        /\ (last.op = "get" /\ Before(last.keys[1]).exists) => last.outcome = "ok"

\* a delete by name that removed every field a record held: the record is
\* still there
C12_Witness ==
    /\ last.op = "delete" /\ ~last.fields.isNone /\ last.outcome = "ok"
    /\ HoldsMap(Before(last.keys[1]))
    /\ StoredMap(Before(last.keys[1])) # EmptyDict
    /\ After(last.keys[1]).exists
    /\ StoredMap(After(last.keys[1])) = EmptyDict

\* ------------------------------------------------------------------------
\* Properties of the rows under concurrent writers
\* ------------------------------------------------------------------------
\* the inserts of a row for key k
Creates(k) == {i \in DOMAIN log : log[i].kind = "create" /\ log[i].key = k}

\* the number of rows of (owner, k): rows are inserted and never removed
RowCount(k) ==
    IF Creates(k) # {} THEN Cardinality(Creates(k))
    ELSE IF store[Owner][k].exists THEN 1 ELSE 0

\* C13: in every interleaving of two set_many calls, also when both find no
\* row for a key, there is at most one row per (owner, key).
C13_Unique ==
    \A k \in Keys :
        /\ RowCount(k) <= 1
        /\ store[Owner][k].exists <=> RowCount(k) = 1

\* both writers found no row for one key before either inserted it, and
\* both calls have returned
C13_Witness ==
    /\ \A t \in DOMAIN threads : threads[t].pc = "done"
    /\ \E k \in RaceKeys :
          /\ \A t \in DOMAIN threads : Pos(t, "miss", k) > 0
          /\ \E c \in Creates(k) :
                \A t \in DOMAIN threads : Pos(t, "miss", k) < c
          /\ RowCount(k) = 1

\* ------------------------------------------------------------------------
\* Properties of rows without a state
\* ------------------------------------------------------------------------
NullBefore(k) == Before(k).exists /\ Before(k).isNone

\* C14: a row whose state is null behaves as a row whose field map is {}:
\* get_many yields {}, set_many overlays on {}, delete_many succeeds with
\* fields=None and with a list of names and leaves an empty map, and
\* get_mod_date_many yields nothing.
C14_NullIsEmpty ==
    /\ (Returned /\ last.op = "get_many") =>
          \A i \in DOMAIN last.yielded :
              NullBefore(last.yielded[i][1]) => last.yielded[i][2] = EmptyDict
    /\ (last.op \in {"set", "set_many"}) =>
          \A k \in DOMAIN last.batch :
              NullBefore(k) =>
                  /\ last.outcome = "ok"
                  /\ HoldsMap(After(k))
                  /\ StoredMap(After(k)) = last.batch[k]
    /\ (last.op \in {"delete", "delete_many"}) =>
          \A k \in Range(last.keys) :
              NullBefore(k) =>
                  /\ last.outcome = "ok"
                  /\ HoldsMap(After(k))
                  /\ StoredMap(After(k)) = EmptyDict
    /\ (Returned /\ last.op = "get_mod_date_many") =>
          \A i \in DOMAIN last.yielded : ~NullBefore(last.yielded[i][1])

\* ------------------------------------------------------------------------
\* Properties of the single-key operations
\* ------------------------------------------------------------------------
\* the field -> date dict of a sequence of (key, field, date) tuples
Collapsed(tuples) ==
    [f \in {tuples[i][2] : i \in DOMAIN tuples} |->
        LET i == CHOOSE i \in DOMAIN tuples : tuples[i][2] = f
        IN  tuples[i][3]]

\* C15: get, set, delete and get_mod_date end as get_many, set_many,
\* delete_many and get_mod_date_many over the one key end, with the same
\* effect on the table: get returns the one map yielded (DoesNotExist when
\* none is), get_mod_date the tuples collapsed into a dict.
C15_SingularIsPlural ==
    /\ last.op = "get" =>
          LET many == get_many(last.before, last.username, last.keys,
                               last.scope, last.fields)
          IN  /\ store = many.store
              /\ last.queries = many.queries
              /\ IF many.outcome # "ok" THEN last.outcome = many.outcome
                 ELSE IF many.yielded = <<>> THEN last.outcome = "DoesNotExist"
                 ELSE last.outcome = "ok" /\ last.ret = many.yielded[1][2]
    /\ last.op = "set" =>
          LET many == set_many(last.before, clock, last.username, last.batch,
                               last.scope)
          IN  /\ store = many.store
              /\ last.outcome = many.outcome
              /\ last.writes = many.writes
    /\ last.op = "delete" =>
          LET many == delete_many(last.before, clock, last.username, last.keys,
                                  last.scope, last.fields)
          IN  /\ store = many.store
              /\ last.outcome = many.outcome
              /\ last.writes = many.writes
    /\ last.op = "get_mod_date" =>
          LET many == get_mod_date_many(last.before, last.username, last.keys,
                                        last.scope, last.fields)
          IN  /\ store = many.store
              /\ last.queries = many.queries
              /\ last.outcome = many.outcome
              /\ last.outcome = "ok" => last.ret = Collapsed(many.yielded)

\* a delete by name that removed one field of a record and kept another
C15_Witness ==
    /\ last.op = "delete" /\ last.username = Owner /\ last.scope = UserState
    /\ ~last.fields.isNone /\ last.outcome = "ok"
    /\ StoredMap(After(last.keys[1])) # EmptyDict
    /\ StoredMap(After(last.keys[1])) # StoredMap(Before(last.keys[1]))

\* ------------------------------------------------------------------------
\* Properties of the unsupported operations
\* ------------------------------------------------------------------------
Unsupported == {"get_history", "iter_all_for_block", "iter_all_for_course"}

\* C16: get_history, iter_all_for_block and iter_all_for_course, called with
\* the supported scope (get_history with the owner's name), raise
\* NotImplementedError whatever the key and the table, and leave the table
\* as it was.
C16_NotImplemented ==
    (/\ last.op \in Unsupported
     /\ last.scope = UserState
     /\ last.op = "get_history" => last.username = Owner) =>
        /\ last.outcome = "NotImplementedError"
        /\ store = last.before
        /\ last.queries = 0 /\ last.writes = 0

\* get_history of a key whose record holds fields
C16_Witness ==
    /\ last.op = "get_history" /\ last.username = Owner /\ last.scope = UserState
    /\ last.outcome = "NotImplementedError"
    /\ HoldsMap(Before(last.keys[1]))
    /\ StoredMap(Before(last.keys[1])) # EmptyDict

\* ------------------------------------------------------------------------
\* Properties of delete on keys without a record
\* ------------------------------------------------------------------------
\* the requested keys that had a record before the call
Present == SelectSeq(last.keys, LAMBDA k : Before(k).exists)

\* C17: delete and delete_many skip a key that has no record: the key still
\* has no record afterwards and get on it raises DoesNotExist, no record of
\* a key that was not requested changes, and the call ends as the call over
\* the keys that have a record ends (without error and without any change
\* when none has).
C17_DeleteMissing ==
    (last.op \in {"delete", "delete_many"}) =>
        /\ \A k \in Range(last.keys) :
              ~Before(k).exists =>
                  /\ ~After(k).exists
                  /\ GetNow(k).outcome = "DoesNotExist"
        /\ \A s \in Users, k \in Keys :
              (s # Owner \/ k \notin Range(last.keys)) =>
                  store[s][k] = last.before[s][k]
        /\ LET rest == delete_many(last.before, clock, Owner, Present,
                                   UserState, last.fields)
           IN  store = rest.store /\ last.outcome = rest.outcome
        /\ Present = <<>> => (last.outcome = "ok" /\ store = last.before)

\* delete_many by name over a key without a record and a key whose record
\* loses a field
C17_Witness ==
    /\ last.op = "delete_many" /\ last.outcome = "ok" /\ ~last.fields.isNone
    /\ Len(last.keys) = 2
    /\ ~Before(last.keys[1]).exists /\ ~After(last.keys[1]).exists
    /\ HoldsMap(Before(last.keys[2]))
    /\ StoredMap(After(last.keys[2])) # StoredMap(Before(last.keys[2]))

\* ------------------------------------------------------------------------
\* Properties of the modification date
\* ------------------------------------------------------------------------
Written(k) ==
    \/ last.op \in {"set", "set_many"} /\ k \in DOMAIN last.batch
    \/ last.op \in {"delete", "delete_many"} /\ k \in Range(last.keys)

\* C18: set and set_many leave the date of every record they write (created
\* or overlaid, changed or not) at the time of the call; the date of a
\* record changes only in a call that writes it, is then the time of that
\* call, and never decreases or runs ahead of the clock.
C18_ModifiedAt ==
    /\ (last.op \in {"set", "set_many"} /\ last.outcome = "ok") =>
          \A k \in DOMAIN last.batch :
              After(k).exists /\ After(k).modified = clock
    /\ (last.op \in ClientOps) =>
          \A k \in Keys :
              (Before(k).exists /\ After(k).modified # Before(k).modified) =>
                  /\ Written(k)
                  /\ After(k).modified = clock
                  /\ After(k).modified > Before(k).modified
    /\ \A k \in Keys : store[Owner][k].exists => store[Owner][k].modified <= clock

\* a set at a later time that changes no field of the record
C18_Witness ==
    /\ last.op = "set" /\ last.outcome = "ok"
    /\ HoldsMap(Before(last.keys[1]))
    /\ Before(last.keys[1]).modified < clock
    /\ After(last.keys[1]).modified = clock
    /\ StoredMap(After(last.keys[1])) = StoredMap(Before(last.keys[1]))
    /\ StoredMap(After(last.keys[1])) # EmptyDict

\* ------------------------------------------------------------------------
\* Properties of the generators
\* ------------------------------------------------------------------------
\* C19: get_many and get_mod_date_many called by the owner with a scope
\* other than user_state have raised ValueError as soon as the call is
\* made, before anything is consumed, as set_many and delete_many have.
C19_FailFast ==
    (/\ last.op \in {"get_many", "get_mod_date_many", "set_many", "delete_many"}
     /\ last.username = Owner
     /\ last.scope # UserState) =>
        last.outcome = "ValueError"

\* ------------------------------------------------------------------------
\* Properties of a batch that fails
\* ------------------------------------------------------------------------
Failed == last.op \in {"set_many", "delete_many"} /\ last.outcome = "DatabaseError"

\* the rows delete_many loads for the call, in the order of its loop
Loaded == get_student_modules(last.before, Owner, last.keys).modules

\* C21: when the table fails at one key of set_many or delete_many the call
\* ends with that error and reports nothing per key; the keys before that
\* one hold what the call wrote for them, the key that failed and the keys
\* after it are as they were before the call.
C21_BatchAborts ==
    Failed =>
        /\ last.yielded = <<>> /\ last.ret = EmptyDict
        /\ last.op = "set_many" =>
              \A i \in DOMAIN last.keys :
                  LET k == last.keys[i]
                  IN  IF i <= last.writes
                      THEN /\ HoldsMap(After(k))
                           /\ StoredMap(After(k)) =
                                 update(StoredMap(Before(k)), last.batch[k])
                           /\ After(k).modified = clock
                      ELSE After(k) = Before(k)
        /\ last.op = "delete_many" =>
              \A i \in DOMAIN Loaded :
                  LET k == Loaded[i][2]
                  IN  IF i <= last.writes
                      THEN /\ HoldsMap(After(k))
                           /\ StoredMap(After(k)) =
                                 (IF last.fields.isNone THEN EmptyDict
                                  ELSE del_fields(StoredMap(Before(k)),
                                                  last.fields.names))
                           /\ After(k).modified = clock
                      ELSE After(k) = Before(k)

\* set_many failed at its second key: the first key holds the new value,
\* the second, which the batch would have created, has no record
C21_Witness ==
    /\ Failed /\ last.op = "set_many"
    /\ Len(last.keys) = 2 /\ last.writes = 1
    /\ After(last.keys[1]) # Before(last.keys[1])
    /\ StoredMap(After(last.keys[1])) # StoredMap(Before(last.keys[1]))
    /\ ~After(last.keys[2]).exists

Writes == {"set", "set_many", "delete", "delete_many"}

\* the keys named in the call
Named == DOMAIN last.batch \cup Range(last.keys)

\* C23: set, set_many, delete and delete_many change only the owner's rows
\* of the keys named in the call: every row of another key or of another
\* student is as before, state and date, and no row comes to exist for a key
\* that was not named.
C23_WriteFrame ==
    (last.op \in Writes) =>
        /\ \A s \in Users, k \in Keys :
              (s # Owner \/ k \notin Named) => store[s][k] = last.before[s][k]
        /\ last.created \subseteq DOMAIN last.batch
        /\ \A k \in Keys : (~Before(k).exists /\ After(k).exists) =>
              (last.op \in {"set", "set_many"} /\ k \in DOMAIN last.batch)

\* a delete of the owner's row of a key for which another student has a row
\* too, at a later time, the owner holding a row of another key
C23_Witness ==
    /\ last.op \in {"delete", "delete_many"} /\ last.outcome = "ok"
    /\ \E k \in Named, j \in Keys \ Named, s \in Users \ {Owner} :
          /\ After(k) # Before(k)
          /\ After(k).modified > Before(k).modified
          /\ store[s][k].exists /\ store[s][k].modified < clock
          /\ After(j).exists

\* ------------------------------------------------------------------------
\* Properties of the reads
\* ------------------------------------------------------------------------
Reads == {"get", "get_many", "get_mod_date", "get_mod_date_many"}

\* C24: get, get_many, get_mod_date and get_mod_date_many, whatever they
\* end with, leave every row of the table as it was, state and date, and
\* create none; after a get that raised DoesNotExist a get of the same key
\* raises DoesNotExist again.
C24_ReadsPure ==
    (last.op \in Reads) =>
        /\ store = last.before
        /\ last.writes = 0 /\ last.created = {}
        /\ \A k \in Range(last.keys) :
              (last.username = Owner /\ last.scope = UserState
                  /\ ~Before(k).exists) =>
                  GetNow(k).outcome = "DoesNotExist"

\* a get of a key without a record, another key having one
C24_Witness ==
    /\ last.op = "get" /\ last.outcome = "DoesNotExist"
    /\ ~After(last.keys[1]).exists
    /\ \E k \in Keys : HoldsMap(After(k)) /\ StoredMap(After(k)) # EmptyDict

\* ------------------------------------------------------------------------
\* Properties of the course tabs
\* ------------------------------------------------------------------------
\* C25: is_enabled of EnrolledOrStaffTab, CoursewareTab, ProgressTab and
\* DiscussionTab is true only for a user who has staff access to the course
\* or is enrolled in it: it is false when no user is given and for the
\* anonymous user.
C25_EnrolledOrStaffOnly ==
    (answer.op = "is_enabled" /\ answer.ret) =>
        /\ answer.user.kind = "user"
        /\ answer.user.staff \/ answer.user.enrolled

\* the flag of the tab: the last value assigned, else that of the tab_dict
Flag ==
    IF tab.assigned # <<>> THEN tab.assigned[Len(tab.assigned)]
    ELSE IF tab.dict.isNone THEN FALSE
    ELSE dict_get_is_hidden(tab.dict)

\* C26: tab['is_hidden'] is the last value assigned (that of the tab_dict,
\* False by default, when none was); to_json() has the key 'is_hidden', with
\* the value True, exactly when the flag is true; the tab built from that
\* output has the same flag and is equal to the tab.
C26_HiddenFlag ==
    /\ answer.op = "getitem" => answer.ret = Flag
    /\ answer.op = "to_json" =>
          /\ answer.json.has_hidden <=> Flag
          /\ answer.json.has_hidden => answer.json.is_hidden
          /\ answer.json.name = tab.obj.name
    /\ answer.op = "from_json" =>
          /\ answer.copy.is_hidden = Flag
          /\ HideableTab_getitem(answer.copy) = HideableTab_getitem(tab.obj)
          /\ answer.ret

\* a tab built visible, hidden, shown and hidden again, and then rebuilt
\* from its to_json()
C26_Witness ==
    /\ answer.op = "from_json"
    /\ ~tab.dict.isNone /\ tab.dict.has_hidden /\ tab.dict.is_hidden
    /\ tab.assigned = <<FALSE, TRUE>>
    /\ answer.json.has_hidden
    /\ answer.copy.is_hidden /\ answer.copy.name = "Notes"
    /\ answer.ret

====
